---- MODULE Spec2Model ----
(***************************************************************************)
(* A model of mcp-server-clickhouse: the call_tool handler of              *)
(* src/clickhouse.ts (credential gate, switch dispatch, zod validation),   *)
(* the HTTP call adapter callClickHouseApi, the stdio bootstrap of         *)
(* src/index.ts and the single-slot SSE bootstrap (sse.ts).                *)
(*                                                                         *)
(* JavaScript values are records tagged by t; strings are TLA+ strings, so *)
(* that messages, URLs and JSON texts are the texts the code builds.       *)
(***************************************************************************)
EXTENDS Integers, Sequences, FiniteSets, TLC

VARIABLES
    env,        \* process.env: CLICKHOUSE_API_KEY_ID, CLICKHOUSE_API_SECRET, CLICKHOUSE_API_URL
    proc,       \* the stdio process of index.ts: "starting", "connecting", "serving", "exited"
    exitCode,   \* the code process.exit was called with, -1 while running
    inv,        \* the call_tool invocation being handled (one at a time)
    api,        \* a direct call of callClickHouseApi (the adapter on its own)
    transport,  \* sse: the module-level `transport` slot (0 is null)
    sess,       \* sse: each GET /sse request's position
    server,     \* sse: the transport the MCP server is connected to (0 is none)
    lastReply   \* sse: the HTTP reply of the latest GET /sse or POST /message

vars == <<env, proc, exitCode, inv, api, transport, sess, server, lastReply>>

(***************************************************************************)
(* JavaScript values                                                       *)
(***************************************************************************)
Undefined == [t |-> "undefined"]
JNull == [t |-> "null"]
JBool(b) == [t |-> "boolean", b |-> b]
JNum(n) == [t |-> "number", n |-> n]
JStr(s) == [t |-> "string", s |-> s]
\* an object is its members in insertion order, each [k |-> key, v |-> value]
JObj(members) == [t |-> "object", members |-> members]
JArr(items) == [t |-> "array", items |-> items]
Member(k, v) == [k |-> k, v |-> v]

\* ToBoolean: what `!x`, `x && y` and `x || y` test
Truthy(v) ==
    CASE v.t = "undefined" -> FALSE
      [] v.t = "null" -> FALSE
      [] v.t = "boolean" -> v.b
      [] v.t = "number" -> v.n # 0
      [] v.t = "string" -> v.s # ""
      [] OTHER -> TRUE

\* x || y
OrElse(x, y) == IF Truthy(x) THEN x ELSE y

\* v?.key : undefined on null and undefined, and on a value without that property
Get(v, key) ==
    IF v.t = "object" /\ \E i \in 1..Len(v.members) : v.members[i].k = key
    THEN v.members[CHOOSE i \in 1..Len(v.members) :
                      /\ v.members[i].k = key
                      /\ \A j \in (i + 1)..Len(v.members) : v.members[j].k # key].v
    ELSE Undefined

Has(v, key) == v.t = "object" /\ \E i \in 1..Len(v.members) : v.members[i].k = key

StartsWith(s, p) == Len(s) >= Len(p) /\ SubSeq(s, 1, Len(p)) = p

EndsWith(s, p) == Len(s) >= Len(p) /\ SubSeq(s, Len(s) - Len(p) + 1, Len(s)) = p

Contains(s, p) == \E i \in 1..(Len(s) - Len(p) + 1) : SubSeq(s, i, i + Len(p) - 1) = p

RECURSIVE JoinItems(_, _)
JoinItems(texts, sep) ==
    IF Len(texts) = 0 THEN ""
    ELSE IF Len(texts) = 1 THEN texts[1]
    ELSE texts[1] \o sep \o JoinItems(Tail(texts), sep)

\* ToString, as a template literal `${v}` applies it
RECURSIVE ToStr(_)
ToStr(v) ==
    CASE v.t = "undefined" -> "undefined"
      [] v.t = "null" -> "null"
      [] v.t = "boolean" -> IF v.b THEN "true" ELSE "false"
      [] v.t = "number" -> ToString(v.n)
      [] v.t = "string" -> v.s
      [] v.t = "array" ->
            JoinItems([i \in 1..Len(v.items) |->
                         IF v.items[i].t \in {"null", "undefined"} THEN ""
                         ELSE ToStr(v.items[i])], ",")
      [] OTHER -> "[object Object]"

\* the escapes JSON.stringify writes inside a string literal
RECURSIVE Quote(_)
Quote(s) ==
    IF s = "" THEN ""
    ELSE LET c == SubSeq(s, 1, 1)
             rest == Quote(SubSeq(s, 2, Len(s)))
         IN  CASE c = "\"" -> "\\\"" \o rest
               [] c = "\\" -> "\\\\" \o rest
               [] c = "\n" -> "\\n" \o rest
               [] OTHER -> c \o rest

RECURSIVE Spaces(_)
Spaces(n) == IF n <= 0 THEN "" ELSE " " \o Spaces(n - 1)

\* JSON.stringify(v, null, indent) for a value that serializes; indent 0 is the
\* compact form JSON.stringify(v). depth is the nesting level being written.
RECURSIVE Serialize(_, _, _)
Serialize(v, indent, depth) ==
    LET nl(d) == IF indent = 0 THEN "" ELSE "\n" \o Spaces(indent * d)
        colon == IF indent = 0 THEN ":" ELSE ": "
        \* a member whose value is undefined is left out; an undefined item is null
        kept == SelectSeq(v.members, LAMBDA m : m.v.t # "undefined")
    IN  CASE v.t = "null" -> "null"
          [] v.t = "boolean" -> IF v.b THEN "true" ELSE "false"
          [] v.t = "number" -> ToString(v.n)
          [] v.t = "string" -> "\"" \o Quote(v.s) \o "\""
          [] v.t = "array" ->
                IF Len(v.items) = 0 THEN "[]"
                ELSE "[" \o nl(depth + 1)
                     \o JoinItems([i \in 1..Len(v.items) |->
                                     IF v.items[i].t = "undefined" THEN "null"
                                     ELSE Serialize(v.items[i], indent, depth + 1)],
                                  "," \o nl(depth + 1))
                     \o nl(depth) \o "]"
          [] v.t = "object" ->
                IF Len(kept) = 0 THEN "{}"
                ELSE "{" \o nl(depth + 1)
                     \o JoinItems([i \in 1..Len(kept) |->
                                     "\"" \o Quote(kept[i].k) \o "\"" \o colon
                                     \o Serialize(kept[i].v, indent, depth + 1)],
                                  "," \o nl(depth + 1))
                     \o nl(depth) \o "}"

\* JSON.stringify(v): a string, or undefined when v is undefined
JsonStringify(v) == IF v.t = "undefined" THEN Undefined ELSE JStr(Serialize(v, 0, 0))

\* JSON.stringify(v, null, 2)
JsonPretty(v) == IF v.t = "undefined" THEN Undefined ELSE JStr(Serialize(v, 2, 0))

(***************************************************************************)
(* zod schemas (src/clickhouse.ts:92-156) and Schema.parse                 *)
(***************************************************************************)
IsHex(c) ==
    c \in {"0", "1", "2", "3", "4", "5", "6", "7", "8", "9",
           "a", "b", "c", "d", "e", "f", "A", "B", "C", "D", "E", "F"}

\* z.string().uuid(): 8-4-4-4-12 hexadecimal digits
IsUuid(s) ==
    /\ Len(s) = 36
    /\ \A i \in 1..36 :
          IF i \in {9, 14, 19, 24} THEN SubSeq(s, i, i) = "-" ELSE IsHex(SubSeq(s, i, i))

ZString == [kind |-> "string", uuid |-> FALSE]
ZUuid == [kind |-> "string", uuid |-> TRUE]
ZEnum(values) == [kind |-> "enum", values |-> values]
ZNumber(checks) == [kind |-> "number", checks |-> checks]
ZArray(of) == [kind |-> "array", of |-> of]
ZObject(shape) == [kind |-> "object", shape |-> shape]
Field(k, s) == [k |-> k, s |-> s, optional |-> FALSE]
Optional(k, s) == [k |-> k, s |-> s, optional |-> TRUE]

OrgIdParamSchema == ZObject(<<Field("organizationId", ZUuid)>>)

ServiceIdParamSchema ==
    ZObject(OrgIdParamSchema.shape \o <<Field("serviceId", ZUuid)>>)

ListOrganizationsSchema == ZObject(<<>>)

IpAccessListEntrySchema ==
    ZObject(<<Field("source", ZString), Optional("description", ZString)>>)

ServicePostRequestSchema ==
    ZObject(<<
        Field("name", ZString),
        Field("provider", ZEnum({"aws", "gcp", "azure"})),
        Field("region", ZEnum({
            "ap-south-1", "ap-southeast-1", "eu-central-1", "eu-west-1", "eu-west-2",
            "us-east-1", "us-east-2", "us-west-2", "ap-southeast-2", "ap-northeast-1",
            "me-central-1", "us-east1", "us-central1", "europe-west4", "asia-southeast1",
            "eastus", "eastus2", "westus3", "germanywestcentral"})),
        Optional("minReplicaMemoryGb",
                 ZNumber(<<[c |-> "min", n |-> 8], [c |-> "multipleOf", n |-> 4]>>)),
        Optional("maxReplicaMemoryGb",
                 ZNumber(<<[c |-> "min", n |-> 8], [c |-> "multipleOf", n |-> 4]>>)),
        Optional("numReplicas",
                 ZNumber(<<[c |-> "min", n |-> 1], [c |-> "max", n |-> 20]>>)),
        Optional("ipAccessList", ZArray(IpAccessListEntrySchema))>>)

CreateServiceSchema ==
    ZObject(OrgIdParamSchema.shape \o <<Field("body", ServicePostRequestSchema)>>)

ServiceStatePatchRequestSchema ==
    ZObject(<<Field("command", ZEnum({"start", "stop"}))>>)

UpdateServiceStateSchema ==
    ZObject(ServiceIdParamSchema.shape \o <<Field("body", ServiceStatePatchRequestSchema)>>)

Issue(code, message, path) == [code |-> code, message |-> message, path |-> path]

RECURSIVE Flatten(_)
Flatten(seqs) == IF Len(seqs) = 0 THEN <<>> ELSE Head(seqs) \o Flatten(Tail(seqs))

NumberIssues(checks, n, path) ==
    Flatten([i \in 1..Len(checks) |->
        LET c == checks[i]
        IN  CASE c.c = "min" /\ n < c.n ->
                   <<Issue("too_small",
                           "Number must be greater than or equal to " \o ToString(c.n), path)>>
              [] c.c = "max" /\ n > c.n ->
                   <<Issue("too_big",
                           "Number must be less than or equal to " \o ToString(c.n), path)>>
              [] c.c = "multipleOf" /\ n % c.n # 0 ->
                   <<Issue("not_multiple_of",
                           "Number must be a multiple of " \o ToString(c.n), path)>>
              [] OTHER -> <<>>])

\* schema.safeParse(v): every issue found (none when v conforms) and the parsed
\* value, which keeps the declared keys only (zod objects strip unknown keys)
RECURSIVE Validate(_, _, _)
Validate(schema, v, path) ==
    LET wrongType(expected) ==
            [issues |-> <<Issue("invalid_type",
                                IF v.t = "undefined" THEN "Required"
                                ELSE "Expected " \o expected \o ", received " \o v.t,
                                path)>>,
             value |-> Undefined]
    IN  CASE schema.kind = "string" ->
               IF v.t # "string" THEN wrongType("string")
               ELSE IF schema.uuid /\ ~IsUuid(v.s)
                    THEN [issues |-> <<Issue("invalid_string", "Invalid uuid", path)>>,
                          value |-> v]
                    ELSE [issues |-> <<>>, value |-> v]
          [] schema.kind = "enum" ->
               IF v.t # "string" THEN wrongType("enum")
               ELSE IF v.s \notin schema.values
                    THEN [issues |-> <<Issue("invalid_enum_value",
                                             "Invalid enum value, received '" \o v.s \o "'",
                                             path)>>,
                          value |-> v]
                    ELSE [issues |-> <<>>, value |-> v]
          [] schema.kind = "number" ->
               IF v.t # "number" THEN wrongType("number")
               ELSE [issues |-> NumberIssues(schema.checks, v.n, path), value |-> v]
          [] schema.kind = "array" ->
               IF v.t # "array" THEN wrongType("array")
               ELSE LET rs == [i \in 1..Len(v.items) |->
                                 Validate(schema.of, v.items[i], Append(path, ToString(i - 1)))]
                    IN  [issues |-> Flatten([i \in 1..Len(rs) |-> rs[i].issues]),
                         value |-> JArr([i \in 1..Len(rs) |-> rs[i].value])]
          [] schema.kind = "object" ->
               IF v.t # "object" THEN wrongType("object")
               ELSE LET rs == [i \in 1..Len(schema.shape) |->
                                 LET f == schema.shape[i]
                                     x == Get(v, f.k)
                                 IN  IF f.optional /\ x.t = "undefined"
                                     THEN [issues |-> <<>>, value |-> Undefined]
                                     ELSE Validate(f.s, x, Append(path, f.k))]
                        present == SelectSeq([i \in 1..Len(rs) |->
                                                Member(schema.shape[i].k, rs[i].value)],
                                             LAMBDA m : m.v.t # "undefined" \/ Has(v, m.k))
                    IN  [issues |-> Flatten([i \in 1..Len(rs) |-> rs[i].issues]),
                         value |-> JObj(present)]

\* ZodError.message: the issues as pretty-printed JSON (of each issue, the fields
\* every zod issue has: code, message, path)
ZodMessage(issues) ==
    JsonPretty(JArr([i \in 1..Len(issues) |->
        JObj(<<Member("code", JStr(issues[i].code)),
               Member("message", JStr(issues[i].message)),
               Member("path", JArr([j \in 1..Len(issues[i].path) |->
                                       JStr(issues[i].path[j])]))>>)])).s

\* a faulty variant: parse returns whatever it was given
ParseResultUnchecked(r) == [threw |-> FALSE, value |-> r.value]

\* what Schema.parse makes of a validation: the parsed value, or a throw of
\* the ZodError
ParseResult(r) ==
    IF Len(r.issues) = 0
    THEN [threw |-> FALSE, value |-> r.value]
    ELSE [threw |-> TRUE, message |-> ZodMessage(r.issues)]

\* Schema.parse(args)
Parse(schema, args) == ParseResult(Validate(schema, args, <<>>))

(***************************************************************************)
(* The HTTP call adapter: callClickHouseApi (src/clickhouse.ts:17-90)      *)
(***************************************************************************)
CLICKHOUSE_API_BASE_URL == "https://api.clickhouse.cloud"

\* A string whose characters beyond ASCII matter (a credential) is held as its
\* code points: [t |-> "string", codes |-> <<...>>].
CStr(codes) == [t |-> "string", codes |-> codes]

\* a faulty variant: the gate tests for undefined only
MissingUndefinedOnly(x) == x.t = "undefined"

\* !x on a value that is undefined or a code-point string
Missing(x) == x.t = "undefined" \/ Len(x.codes) = 0

B64Chars == "ABCDEFGHIJKLMNOPQRSTUVWXYZabcdefghijklmnopqrstuvwxyz0123456789+/"

B64(n) == SubSeq(B64Chars, n + 1, n + 1)

RECURSIVE Base64(_)
Base64(bytes) ==
    CASE Len(bytes) = 0 -> ""
      [] Len(bytes) = 1 ->
            B64(bytes[1] \div 4) \o B64((bytes[1] % 4) * 16) \o "=="
      [] Len(bytes) = 2 ->
            B64(bytes[1] \div 4) \o B64((bytes[1] % 4) * 16 + bytes[2] \div 16)
            \o B64((bytes[2] % 16) * 4) \o "="
      [] OTHER ->
            B64(bytes[1] \div 4) \o B64((bytes[1] % 4) * 16 + bytes[2] \div 16)
            \o B64((bytes[2] % 16) * 4 + bytes[3] \div 64) \o B64(bytes[3] % 64)
            \o Base64(SubSeq(bytes, 4, Len(bytes)))

\* btoa(codes): base64 of a string of Latin-1 characters; a character above
\* U+00FF makes it throw InvalidCharacterError
Btoa(codes) ==
    IF \E i \in 1..Len(codes) : codes[i] > 255
    THEN [threw |-> TRUE, message |-> "Invalid character"]
    ELSE [threw |-> FALSE, value |-> Base64(codes)]

NoHeaders == [h \in {} |-> ""]

\* a faulty variant: the method is not looked at
AttachesBodyAnyMethod(body, method) == Truthy(body)

\* line 39: whether the request gets a body
AttachesBody(body, method) == Truthy(body) /\ (method = "POST" \/ method = "PATCH")

\* lines 25-42: the url, the headers and the options fetch is called with, or
\* the throw of btoa
BuildRequest(path, method, apiKeyId, apiKeySecret, body, additionalHeaders) ==
    LET url == CLICKHOUSE_API_BASE_URL \o path
        authToken == Btoa(apiKeyId.codes \o <<58>> \o apiKeySecret.codes)
        headers == additionalHeaders
                   @@ ("Authorization" :> ("Basic " \o authToken.value))
                   @@ ("Accept" :> "application/json")
        withBody == AttachesBody(body, method)
    IN  IF authToken.threw
        THEN [threw |-> TRUE, message |-> authToken.message]
        ELSE [threw |-> FALSE,
              request |->
                [url |-> url,
                 method |-> method,
                 headers |-> IF withBody
                             THEN ("Content-Type" :> "application/json") @@ headers
                             ELSE headers,
                 body |-> IF withBody THEN JsonStringify(body) ELSE Undefined]]

\* response.ok
Ok(response) == response.status >= 200 /\ response.status <= 299

\* The JSON documents an upstream body can hold in this model; every other
\* body text is not JSON.
JsonDocs ==
    { JObj(<<Member("error", JStr("not found"))>>),
      JObj(<<Member("message", JStr("Service is not stopped"))>>),
      JObj(<<Member("result", JArr(<<>>))>>) }

\* JSON.parse(text)
JsonParse(text) ==
    IF \E d \in JsonDocs : Serialize(d, 0, 0) = text
    THEN [threw |-> FALSE, value |-> CHOOSE d \in JsonDocs : Serialize(d, 0, 0) = text]
    ELSE [threw |-> TRUE, message |-> "Unexpected token in JSON"]

\* response.text(): rejects when the body was already read (bodyUsed) or its
\* stream fails
ReadText(response, bodyUsed) ==
    IF bodyUsed \/ ~response.readable
    THEN [threw |-> TRUE,
          message |-> IF bodyUsed THEN "Body is unusable" ELSE "terminated"]
    ELSE [threw |-> FALSE, value |-> response.body]

\* response.json(): reads the body, then parses it
ReadJson(response) ==
    IF ~response.readable
    THEN [threw |-> TRUE, message |-> "terminated"]
    ELSE JsonParse(response.body)

\* response.text().catch(() => response.statusText)
TextOrStatusText(response, bodyUsed) ==
    LET r == ReadText(response, bodyUsed)
    IN  IF r.threw THEN response.statusText ELSE r.value

ApiErrorPrefix(method, path) == "ClickHouse API Error (" \o method \o " " \o path \o "): "

NoContentMessage == "Operation successful (No Content)"

\* lines 48-60: a response whose content-type starts with text/plain
HandlePlainText(method, path, response) ==
    IF ~Ok(response)
    THEN [threw |-> TRUE,
          message |-> ApiErrorPrefix(method, path) \o ToString(response.status) \o " "
                      \o TextOrStatusText(response, FALSE)]
    ELSE LET textData == ReadText(response, FALSE)
         IN  IF textData.threw
             THEN [threw |-> TRUE, message |-> textData.message]
             ELSE [threw |-> FALSE,
                   value |-> JObj(<<Member("plainTextResponse", JStr(textData.value))>>)]

\* a faulty variant: only a 204 counts as no content
IsNoContent204Only(response) == response.status = 204

\* line 67: no content
IsNoContent(response) ==
    response.status = 204 \/ response.contentLength = JStr("0")

\* line 82
ErrorMessageOf(responseData, response) ==
    OrElse(Get(responseData, "error"),
           OrElse(Get(responseData, "message"),
                  OrElse(JsonStringify(responseData), JStr(response.statusText))))

\* lines 63-89: every other response
HandleJson(method, path, response) ==
    LET responseData ==
            IF IsNoContent(response)
            THEN [threw |-> FALSE,
                  value |-> JObj(<<Member("status", JNum(response.status)),
                                   Member("message", JStr(NoContentMessage))>>)]
            ELSE ReadJson(response)
    IN  IF responseData.threw
        THEN [threw |-> TRUE,
              message |-> ApiErrorPrefix(method, path)
                          \o "Failed to parse JSON response. Status: "
                          \o ToString(response.status) \o ". Response text: "
                          \o TextOrStatusText(response, TRUE)]
        ELSE IF ~Ok(response)
        THEN [threw |-> TRUE,
              message |-> ApiErrorPrefix(method, path) \o ToString(response.status) \o " "
                          \o ToStr(ErrorMessageOf(responseData.value, response))]
        ELSE [threw |-> FALSE, value |-> responseData.value]

\* a faulty variant: the content type is compared, not its beginning
IsPlainTextExactly(response) == response.contentType = JStr("text/plain")

\* line 49
IsPlainText(response) ==
    response.contentType.t = "string" /\ StartsWith(response.contentType.s, "text/plain")

\* lines 48-89: what callClickHouseApi returns or throws once fetch has resolved
HandleResponse(method, path, response) ==
    IF IsPlainText(response)
    THEN HandlePlainText(method, path, response)
    ELSE HandleJson(method, path, response)

(***************************************************************************)
(* The tool registry and the call_tool handler (src/clickhouse.ts:161-375) *)
(***************************************************************************)
Tool(name, inputSchema) == [name |-> name, inputSchema |-> inputSchema]

CLICKHOUSE_TOOLS ==
    << Tool("clickhouse_listOrganizations", ListOrganizationsSchema),
       Tool("clickhouse_getOrganizationDetails", OrgIdParamSchema),
       Tool("clickhouse_listServices", OrgIdParamSchema),
       Tool("clickhouse_getServiceDetails", ServiceIdParamSchema),
       Tool("clickhouse_createService", CreateServiceSchema),
       Tool("clickhouse_deleteService", ServiceIdParamSchema),
       Tool("clickhouse_listApiKeys", OrgIdParamSchema),
       Tool("clickhouse_updateServiceState", UpdateServiceStateSchema) >>

ConfigErrorMessage ==
    "ClickHouse API Key ID or Secret not configured. "
    \o "Set CLICKHOUSE_API_KEY_ID and CLICKHOUSE_API_SECRET environment variables."

\* a faulty variant: the catch block re-throws the error as it is
ToolFailedBare(name, message) == message

\* line 367: the error the catch block re-throws
ToolFailed(name, message) == "Tool " \o name \o " failed: " \o message

Throw(message) == [threw |-> TRUE, message |-> message]

\* the arguments of one call of callClickHouseApi
Call(path, method, body) ==
    [threw |-> FALSE, path |-> path, method |-> method, body |-> body]

OrgPath(a) == "/v1/organizations/" \o ToStr(Get(a, "organizationId"))

ServicePath(a) == OrgPath(a) \o "/services/" \o ToStr(Get(a, "serviceId"))

\* the schema each case of the switch parses the arguments with
SchemaOfCase(name) ==
    CASE name = "clickhouse_listOrganizations" -> ListOrganizationsSchema
      [] name = "clickhouse_getOrganizationDetails" -> OrgIdParamSchema
      [] name = "clickhouse_listServices" -> OrgIdParamSchema
      [] name = "clickhouse_getServiceDetails" -> ServiceIdParamSchema
      [] name = "clickhouse_createService" -> CreateServiceSchema
      [] name = "clickhouse_deleteService" -> ServiceIdParamSchema
      [] name = "clickhouse_listApiKeys" -> OrgIdParamSchema
      [] name = "clickhouse_updateServiceState" -> UpdateServiceStateSchema

\* the call each case makes once its arguments parsed; a parse that threw leaves
\* the switch
CaseCall(name, validatedArgs) ==
    IF validatedArgs.threw THEN Throw(validatedArgs.message)
    ELSE CASE name = "clickhouse_listOrganizations" ->
                Call("/v1/organizations", "GET", Undefined)
           [] name = "clickhouse_getOrganizationDetails" ->
                Call(OrgPath(validatedArgs.value), "GET", Undefined)
           [] name = "clickhouse_listServices" ->
                Call(OrgPath(validatedArgs.value) \o "/services", "GET", Undefined)
           [] name = "clickhouse_getServiceDetails" ->
                Call(ServicePath(validatedArgs.value), "GET", Undefined)
           [] name = "clickhouse_createService" ->
                Call(OrgPath(validatedArgs.value) \o "/services", "POST",
                     Get(validatedArgs.value, "body"))
           [] name = "clickhouse_deleteService" ->
                Call(ServicePath(validatedArgs.value), "DELETE", Undefined)
           [] name = "clickhouse_listApiKeys" ->
                Call(OrgPath(validatedArgs.value) \o "/keys", "GET", Undefined)
           [] name = "clickhouse_updateServiceState" ->
                Call(ServicePath(validatedArgs.value) \o "/state", "PATCH",
                     Get(validatedArgs.value, "body"))

\* the `case` labels of the switch
CaseNames ==
    {"clickhouse_listOrganizations", "clickhouse_getOrganizationDetails",
     "clickhouse_listServices", "clickhouse_getServiceDetails",
     "clickhouse_createService", "clickhouse_deleteService",
     "clickhouse_listApiKeys", "clickhouse_updateServiceState"}

\* lines 252-363: the switch on the tool name, up to the call of
\* callClickHouseApi: a case parses the arguments, which may throw, and calls;
\* the default throws
Dispatch(name, args) ==
    IF name \in CaseNames
    THEN CaseCall(name, Parse(SchemaOfCase(name), args))
    ELSE Throw("Unknown tool: " \o name)

\* lines 372-374: the MCP content of a result
Content(result) ==
    JArr(<<JObj(<<Member("type", JStr("text")), Member("text", JsonPretty(result))>>)>>)

(***************************************************************************)
(* Inputs                                                                   *)
(***************************************************************************)
OrgA == "123e4567-e89b-12d3-a456-426614174000"
SvcB == "9f8b7c6d-0a1b-4c2d-8e3f-5a6b7c8d9e0f"

ToolNames ==
    {CLICKHOUSE_TOOLS[i].name : i \in 1..Len(CLICKHOUSE_TOOLS)}
    \cup {"clickhouse_getServicePrometheusMetrics"}

ServiceSpec(memoryGb) ==
    JObj(<<Member("name", JStr("analytics")), Member("provider", JStr("aws")),
           Member("region", JStr("us-east-1")),
           Member("minReplicaMemoryGb", JNum(memoryGb))>>)

ArgumentValues ==
    { Undefined,
      JObj(<<Member("organizationId", JStr("my-org"))>>),
      JObj(<<Member("organizationId", JStr(OrgA))>>),
      JObj(<<Member("organizationId", JStr(OrgA)), Member("serviceId", JStr(SvcB))>>),
      JObj(<<Member("organizationId", JStr(OrgA)), Member("serviceId", JStr(SvcB)),
             Member("body", JObj(<<Member("command", JStr("start"))>>))>>),
      JObj(<<Member("organizationId", JStr(OrgA)), Member("serviceId", JStr(SvcB)),
             Member("body", JObj(<<Member("command", JStr("restart"))>>))>>),
      JObj(<<Member("organizationId", JStr(OrgA)), Member("body", ServiceSpec(12))>>) }

\* "id", "pw" and a key id with a character beyond Latin-1 (U+043A, then "1")
KeyIdValues == {Undefined, CStr(<<>>), CStr(<<105, 100>>), CStr(<<1082, 49>>)}
SecretValues == {Undefined, CStr(<<>>), CStr(<<112, 119>>)}
ApiUrlValues == {Undefined, JStr("http://localhost:2023")}

Environments ==
    [CLICKHOUSE_API_KEY_ID : KeyIdValues,
     CLICKHOUSE_API_SECRET : SecretValues,
     CLICKHOUSE_API_URL : ApiUrlValues]

Statuses == {200, 204, 404}

StatusText(status) ==
    CASE status = 200 -> "OK"
      [] status = 204 -> "No Content"
      [] status = 404 -> "Not Found"

BodyTexts ==
    {Serialize(d, 0, 0) : d \in JsonDocs} \cup {"", "<html>Bad Gateway</html>"}

ContentTypes ==
    {JNull, JStr("application/json"), JStr("text/plain; charset=utf-8")}

\* What fetch can resolve with: a 204 has no body, a content-length header, when
\* sent, is the length of the body; readable is whether the body stream can be
\* read to its end (of a stream that fails, the text is never seen: "").
Responses ==
    { r \in [status : Statuses, contentType : ContentTypes, body : BodyTexts,
             contentLength : {JNull} \cup {JStr(ToString(Len(b))) : b \in BodyTexts},
             readable : BOOLEAN, statusText : {StatusText(s) : s \in Statuses}] :
        /\ r.statusText = StatusText(r.status)
        /\ (r.status = 204 \/ ~r.readable) => r.body = ""
        /\ r.contentLength \in {JNull, JStr(ToString(Len(r.body)))} }

\* no HTTP reply sent yet
NoReply == [code |-> 0, to |-> 0]

NoRequest == [url |-> "", method |-> "", headers |-> NoHeaders, body |-> Undefined]

NoResponse ==
    [status |-> 0, contentType |-> JNull, body |-> "", contentLength |-> JNull,
     readable |-> FALSE, statusText |-> ""]

Idle ==
    [pc |-> "idle", name |-> "", args |-> Undefined,
     keyIdAtCall |-> Undefined, secretAtCall |-> Undefined, apiUrlAtCall |-> Undefined,
     dispatched |-> FALSE, path |-> "", method |-> "",
     request |-> NoRequest, fetches |-> 0, response |-> NoResponse,
     content |-> Undefined, error |-> ""]

(***************************************************************************)
(* The stdio process (src/index.ts) and its call_tool invocations          *)
(***************************************************************************)
\* lines 11-21: main() logs missing credentials and goes on (process.exit(1) is
\* commented out)
StartupExits(e) == FALSE

\* lines 9-21: main() checks the credentials
MainCheck ==
    /\ proc = "starting"
    /\ IF StartupExits(env)
       THEN proc' = "exited" /\ exitCode' = 1
       ELSE proc' = "connecting" /\ exitCode' = exitCode
    /\ UNCHANGED <<env, inv, api, transport, sess, server, lastReply>>

\* lines 24-28 and 43-46: server.connect(transport); a connect that throws ends
\* the process with code 1
MainConnect ==
    /\ proc = "connecting"
    /\ \E connected \in BOOLEAN :
          IF connected
          THEN proc' = "serving" /\ exitCode' = exitCode
          ELSE proc' = "exited" /\ exitCode' = 1
    /\ UNCHANGED <<env, inv, api, transport, sess, server, lastReply>>

\* lines 31-40: SIGINT or SIGTERM
Shutdown ==
    /\ proc = "serving"
    /\ proc' = "exited"
    /\ exitCode' = 0
    /\ inv' = Idle
    /\ UNCHANGED <<env, api, transport, sess, server, lastReply>>

\* the process configuration changes (one variable of process.env is set or
\* unset); this is code of another task, which runs while no handler code does:
\* between requests, or while a handler awaits fetch
SetEnv ==
    /\ proc = "serving"
    /\ inv.pc \in {"idle", "calling"}
    /\ \E e \in Environments :
          /\ Cardinality({k \in DOMAIN e : e[k] # env[k]}) = 1
          /\ env' = e
    /\ UNCHANGED <<proc, exitCode, inv, api, transport, sess, server, lastReply>>

\* lines 255-341 and 25-46: callClickHouseApi has built its request; a throw of
\* btoa is caught at line 364, else fetch is called
Requested(started, call, built) ==
    IF built.threw
    THEN [started EXCEPT !.pc = "failed", !.path = call.path, !.method = call.method,
                         !.error = ToolFailed(started.name, built.message)]
    ELSE [started EXCEPT !.pc = "calling", !.path = call.path, !.method = call.method,
                         !.request = built.request,
                         !.fetches = started.fetches + 1]

\* lines 250-368: the try block; what the switch threw is caught at line 364
Dispatched(started, call, apiKeyId, apiKeySecret) ==
    IF call.threw
    THEN [started EXCEPT !.pc = "failed",
                         !.error = ToolFailed(started.name, call.message)]
    ELSE Requested(started, call,
                   BuildRequest(call.path, call.method, apiKeyId, apiKeySecret,
                                call.body, NoHeaders))

\* lines 236-368, up to the await of fetch (line 46): the credential gate, then
\* the switch
Handle(started, apiKeyId, apiKeySecret) ==
    IF Missing(apiKeyId) \/ Missing(apiKeySecret)
    THEN [started EXCEPT !.pc = "failed", !.error = ConfigErrorMessage]
    ELSE Dispatched([started EXCEPT !.dispatched = TRUE],
                    Dispatch(started.name, started.args), apiKeyId, apiKeySecret)

\* a call_tool request arrives: the handler runs up to its first await
CallTool ==
    /\ proc = "serving"
    /\ inv.pc = "idle"
    /\ \E name \in ToolNames, args \in ArgumentValues :
          inv' = Handle([Idle EXCEPT !.name = name, !.args = args,
                                     !.keyIdAtCall = env.CLICKHOUSE_API_KEY_ID,
                                     !.secretAtCall = env.CLICKHOUSE_API_SECRET,
                                     !.apiUrlAtCall = env.CLICKHOUSE_API_URL],
                        env.CLICKHOUSE_API_KEY_ID, env.CLICKHOUSE_API_SECRET)
    /\ UNCHANGED <<env, proc, exitCode, api, transport, sess, server, lastReply>>

\* line 46 resolves; lines 48-89, then 364-374
FetchResolve ==
    /\ proc = "serving"
    /\ inv.pc = "calling"
    /\ \E response \in Responses :
          LET result == HandleResponse(inv.method, inv.path, response)
          IN  IF result.threw
              THEN inv' = [inv EXCEPT !.pc = "failed", !.response = response,
                                      !.error = ToolFailed(inv.name, result.message)]
              ELSE inv' = [inv EXCEPT !.pc = "completed", !.response = response,
                                      !.content = Content(result.value)]
    /\ UNCHANGED <<env, proc, exitCode, api, transport, sess, server, lastReply>>

\* line 46 rejects: a transport-level failure (DNS, TLS, connection reset)
FetchReject ==
    /\ proc = "serving"
    /\ inv.pc = "calling"
    /\ inv' = [inv EXCEPT !.pc = "failed",
                          !.error = ToolFailed(inv.name, "fetch failed")]
    /\ UNCHANGED <<env, proc, exitCode, api, transport, sess, server, lastReply>>

\* the handler's promise has settled: the SDK answers the request, the next
\* request is handled
Respond ==
    /\ proc = "serving"
    /\ inv.pc \in {"completed", "failed"}
    /\ inv' = Idle
    /\ UNCHANGED <<env, proc, exitCode, api, transport, sess, server, lastReply>>

Init ==
    /\ env \in Environments
    /\ proc = "starting"
    /\ exitCode = -1
    /\ inv = Idle
    /\ api = Undefined
    /\ transport = 0
    /\ sess = <<>>
    /\ server = 0
    /\ lastReply = NoReply

Next ==
    \/ MainCheck
    \/ MainConnect
    \/ Shutdown
    \/ SetEnv
    \/ CallTool
    \/ FetchResolve
    \/ FetchReject
    \/ Respond

Spec == Init /\ [][Next]_vars

(***************************************************************************)
(* callClickHouseApi on its own: every method, with and without a body     *)
(***************************************************************************)
ApiBodies ==
    { Undefined, JNull, JBool(FALSE), JBool(TRUE), JNum(0), JStr(""), JObj(<<>>),
      JObj(<<Member("command", JStr("start"))>>) }

ApiHeaders ==
    { NoHeaders, "Accept" :> "text/plain", "Content-Type" :> "text/csv" }

ApiCalls ==
    [pc : {"ready"},
     path : {"/v1/organizations", "/v1/organizations/" \o OrgA \o "/services"},
     method : {"GET", "POST", "PATCH", "DELETE"},
     apiKeyId : {CStr(<<105, 100>>), CStr(<<1082, 49>>)},
     apiKeySecret : {CStr(<<112, 119>>)},
     body : ApiBodies,
     additionalHeaders : ApiHeaders,
     request : {NoRequest},
     response : {NoResponse},
     result : {Undefined},
     error : {""}]

\* lines 25-46: the call, up to the await of fetch
ApiCall ==
    /\ api.pc = "ready"
    /\ LET built == BuildRequest(api.path, api.method, api.apiKeyId, api.apiKeySecret,
                                 api.body, api.additionalHeaders)
       IN  api' = IF built.threw
                  THEN [api EXCEPT !.pc = "threw", !.error = built.message]
                  ELSE [api EXCEPT !.pc = "fetching", !.request = built.request]
    /\ UNCHANGED <<env, proc, exitCode, inv, transport, sess, server, lastReply>>

\* lines 46-89: fetch resolves
ApiResolve ==
    /\ api.pc = "fetching"
    /\ \E response \in Responses :
          LET result == HandleResponse(api.method, api.path, response)
          IN  api' = IF result.threw
                     THEN [api EXCEPT !.pc = "threw", !.response = response,
                                      !.error = result.message]
                     ELSE [api EXCEPT !.pc = "returned", !.response = response,
                                      !.result = result.value]
    /\ UNCHANGED <<env, proc, exitCode, inv, transport, sess, server, lastReply>>

\* line 46: fetch rejects
ApiReject ==
    /\ api.pc = "fetching"
    /\ api' = [api EXCEPT !.pc = "threw", !.error = "fetch failed"]
    /\ UNCHANGED <<env, proc, exitCode, inv, transport, sess, server, lastReply>>

InitApi ==
    /\ api \in ApiCalls
    /\ env = [CLICKHOUSE_API_KEY_ID |-> Undefined, CLICKHOUSE_API_SECRET |-> Undefined,
              CLICKHOUSE_API_URL |-> Undefined]
    /\ proc = "serving"
    /\ exitCode = -1
    /\ inv = Idle
    /\ transport = 0
    /\ sess = <<>>
    /\ server = 0
    /\ lastReply = NoReply

NextApi ==
    \/ ApiCall
    \/ ApiResolve
    \/ ApiReject

SpecApi == InitApi /\ [][NextApi]_vars

(***************************************************************************)
(* The SSE bootstrap: one module-level transport slot                      *)
(*                                                                         *)
(* sess[i] is the i-th GET /sse request. st is where its handler stands:   *)
(* "rejected" (409 sent), "connecting" (awaiting server.connect),          *)
(* "connected" (close handler registered), "cleanup" and "closing" (the    *)
(* close handler awaiting cleanup() and server.close()), "released" (the   *)
(* close handler ran to its end), "failed" (500 sent), "threw" (the close  *)
(* handler rejected before its last line). gone is TRUE once the client's  *)
(* request has emitted 'close'.                                            *)
(***************************************************************************)
MaxSessions == 4

\* a faulty variant: the slot is never seen as taken
SlotTakenNever(t) == FALSE

\* line 25: if (transport)
SlotTaken(t) == t # 0

\* lines 24-34: GET /sse, up to the await of server.connect
GetSse ==
    /\ Len(sess) < MaxSessions
    /\ LET id == Len(sess) + 1
       IN  IF SlotTaken(transport)
           THEN /\ sess' = Append(sess, [st |-> "rejected", gone |-> FALSE])
                /\ lastReply' = [code |-> 409, to |-> id]
                /\ UNCHANGED transport
           ELSE /\ sess' = Append(sess, [st |-> "connecting", gone |-> FALSE])
                /\ transport' = id
                /\ UNCHANGED lastReply
    /\ UNCHANGED <<env, proc, exitCode, inv, api, server>>

\* lines 34-45: server.connect resolved; the close handler is registered
ConnectOk ==
    /\ \E id \in DOMAIN sess :
          /\ sess[id].st = "connecting"
          /\ sess' = [sess EXCEPT ![id].st = "connected"]
          /\ server' = id
    /\ UNCHANGED <<env, proc, exitCode, inv, api, transport, lastReply>>

\* lines 47-51: server.connect rejected
ConnectFail ==
    /\ \E id \in DOMAIN sess :
          /\ sess[id].st = "connecting"
          /\ sess' = [sess EXCEPT ![id].st = "failed"]
          /\ lastReply' = [code |-> 500, to |-> id]
    /\ transport' = 0
    /\ UNCHANGED <<env, proc, exitCode, inv, api, server>>

\* lines 38-44: the client goes away. A handler registered by then runs up to
\* its first await; server.isConnected is the library's, either value.
Disconnect ==
    /\ \E id \in DOMAIN sess, isConnected \in BOOLEAN :
          /\ sess[id].st \in {"connecting", "connected"}
          /\ ~sess[id].gone
          /\ IF sess[id].st = "connecting"
             THEN /\ sess' = [sess EXCEPT ![id].gone = TRUE]
                  /\ UNCHANGED transport
             ELSE IF isConnected
             THEN /\ sess' = [sess EXCEPT ![id].gone = TRUE, ![id].st = "cleanup"]
                  /\ UNCHANGED transport
             ELSE /\ sess' = [sess EXCEPT ![id].gone = TRUE, ![id].st = "released"]
                  /\ transport' = 0
    /\ UNCHANGED <<env, proc, exitCode, inv, api, server, lastReply>>

\* line 41: await cleanup() resumed (cleanup only logs, clickhouse.ts 378-381)
CleanupDone ==
    /\ \E id \in DOMAIN sess :
          /\ sess[id].st = "cleanup"
          /\ sess' = [sess EXCEPT ![id].st = "closing"]
    /\ UNCHANGED <<env, proc, exitCode, inv, api, transport, server, lastReply>>

\* lines 42-44: await server.close() resumed, or rejected
CloseDone ==
    /\ \E id \in DOMAIN sess, closed \in BOOLEAN :
          /\ sess[id].st = "closing"
          /\ IF closed
             THEN /\ sess' = [sess EXCEPT ![id].st = "released"]
                  /\ server' = 0
                  /\ transport' = 0
             ELSE /\ sess' = [sess EXCEPT ![id].st = "threw"]
                  /\ UNCHANGED <<server, transport>>
    /\ UNCHANGED <<env, proc, exitCode, inv, api, lastReply>>

\* lines 54-61: POST /message; 202 stands for whatever handlePostMessage sends
PostMessage ==
    /\ lastReply' = IF ~SlotTaken(transport)
                    THEN [code |-> 404, to |-> 0]
                    ELSE [code |-> 202, to |-> transport]
    /\ UNCHANGED <<env, proc, exitCode, inv, api, transport, sess, server>>

InitSse ==
    /\ env = [CLICKHOUSE_API_KEY_ID |-> Undefined, CLICKHOUSE_API_SECRET |-> Undefined,
              CLICKHOUSE_API_URL |-> Undefined]
    /\ proc = "serving"
    /\ exitCode = -1
    /\ inv = Idle
    /\ api = Undefined
    /\ transport = 0
    /\ sess = <<>>
    /\ server = 0
    /\ lastReply = NoReply

NextSse ==
    \/ GetSse
    \/ ConnectOk
    \/ ConnectFail
    \/ Disconnect
    \/ CleanupDone
    \/ CloseDone
    \/ PostMessage

SpecSse == InitSse /\ [][NextSse]_vars

\* The promises the handlers await settle: server.connect resolves or rejects,
\* cleanup() resolves, server.close() resolves or rejects. Nothing makes a
\* client send a request or go away.
SpecSseFair ==
    /\ SpecSse
    /\ WF_vars(ConnectOk \/ ConnectFail)
    /\ WF_vars(CleanupDone)
    /\ WF_vars(CloseDone)

TruthyBody == api.body \notin {Undefined, JNull, JBool(FALSE), JNum(0), JStr("")}

IsRegistered(name) == \E i \in 1..Len(CLICKHOUSE_TOOLS) : CLICKHOUSE_TOOLS[i].name = name

RegisteredSchema(name) ==
    CLICKHOUSE_TOOLS[CHOOSE i \in 1..Len(CLICKHOUSE_TOOLS) :
                        CLICKHOUSE_TOOLS[i].name = name].inputSchema

\* the invocation names a registered tool and its arguments satisfy that tool's
\* registered schema
ValidInvocation ==
    /\ IsRegistered(inv.name)
    /\ Len(Validate(RegisteredSchema(inv.name), inv.args, <<>>).issues) = 0

CredentialsMissingAtCall ==
    \/ inv.keyIdAtCall.t = "undefined" \/ inv.keyIdAtCall = CStr(<<>>)
    \/ inv.secretAtCall.t = "undefined" \/ inv.secretAtCall = CStr(<<>>)

ToolPrefix == "Tool " \o inv.name \o " failed: "

\* C1: fetch is called only by an invocation that names a registered tool with
\* arguments valid for that tool's schema; an invocation of an unregistered tool
\* or with invalid arguments issues no HTTP request and ends Failed.
C1_HttpOnlyAfterValidation ==
    inv.pc # "idle" =>
        /\ (inv.fetches > 0 \/ inv.request # NoRequest) => ValidInvocation
        /\ ~ValidInvocation =>
              /\ inv.fetches = 0
              /\ inv.request = NoRequest
              /\ inv.pc = "failed"

\* a registered tool, called with credentials present and an organizationId that
\* is no UUID, has failed in the switch
C1_Witness ==
    /\ inv.pc = "failed"
    /\ inv.dispatched
    /\ inv.name = "clickhouse_getOrganizationDetails"
    /\ Get(inv.args, "organizationId") = JStr("my-org")
    /\ inv.fetches = 0

\* C2 (as claimed): every failed invocation's error is prefixed with
\* "Tool <name> failed: ", whatever the kind of failure.
C2_EveryFailurePrefixed ==
    inv.pc = "failed" => StartsWith(inv.error, ToolPrefix)

\* C2 (amended): a failure raised inside the try block (unknown tool, validation,
\* request building, transport, upstream) reaches the caller as
\* "Tool <name> failed: <underlying message>"; the configuration error of the
\* credential gate is thrown before the try block and reaches the caller as its
\* bare message; a completed invocation had a 2xx response and holds no error.
C2_FailuresPrefixedExceptConfiguration ==
    /\ inv.pc = "failed" =>
          IF CredentialsMissingAtCall
          THEN inv.error = ConfigErrorMessage /\ ~StartsWith(inv.error, ToolPrefix)
          ELSE /\ StartsWith(inv.error, ToolPrefix)
               /\ Len(inv.error) > Len(ToolPrefix)
               /\ ~IsRegistered(inv.name) =>
                     inv.error = ToolPrefix \o "Unknown tool: " \o inv.name
    /\ inv.pc = "completed" =>
          /\ inv.error = ""
          /\ inv.fetches = 1
          /\ inv.response.status \in 200..299

\* an upstream 404 has failed the invocation, with the prefix
C2_Witness ==
    /\ inv.pc = "failed"
    /\ inv.response.status = 404
    /\ StartsWith(inv.error, ToolPrefix \o "ClickHouse API Error (")

\* C3: an invocation fails at once with the configuration error, before the
\* switch and without an HTTP request, exactly when CLICKHOUSE_API_KEY_ID or
\* CLICKHOUSE_API_SECRET is absent or empty as the invocation is made; otherwise
\* it enters the switch. Neither the startup check nor a call ends the process.
C3_GatePerCall ==
    /\ [](inv.pc # "idle" =>
            /\ (inv.pc = "failed" /\ inv.error = ConfigErrorMessage)
                  <=> CredentialsMissingAtCall
            /\ CredentialsMissingAtCall =>
                  inv.fetches = 0 /\ inv.request = NoRequest /\ ~inv.dispatched
            /\ ~CredentialsMissingAtCall => inv.dispatched)
    /\ [][/\ proc = "starting" => proc' = "connecting"
          /\ (inv.pc = "idle" /\ inv'.pc # "idle") =>
                /\ proc' = "serving"
                /\ inv'.keyIdAtCall = env.CLICKHOUSE_API_KEY_ID
                /\ inv'.secretAtCall = env.CLICKHOUSE_API_SECRET]_vars

\* the process serves; a call made while the key id was the empty string and
\* the secret was set has failed with the configuration error
C3_Witness ==
    /\ proc = "serving"
    /\ inv.pc = "failed"
    /\ inv.error = ConfigErrorMessage
    /\ inv.keyIdAtCall = CStr(<<>>)
    /\ inv.secretAtCall # Undefined

\* C4 (as claimed): the URL of every request is the value of CLICKHOUSE_API_URL
\* when it is set, https://api.clickhouse.cloud otherwise, followed by the path.
C4_BaseUrlFromEnvironment ==
    inv.fetches > 0 =>
        inv.request.url =
            (IF inv.apiUrlAtCall.t = "undefined"
             THEN "https://api.clickhouse.cloud"
             ELSE inv.apiUrlAtCall.s) \o inv.path


(***************************************************************************)
(* Properties of the response handling                                     *)
(***************************************************************************)
Settled == inv.pc \in {"completed", "failed"} /\ inv.response # NoResponse

PlainTextResponse ==
    inv.response.contentType.t = "string"
    /\ StartsWith(inv.response.contentType.s, "text/plain")

NoContentResponse ==
    ~PlainTextResponse
    /\ (inv.response.status = 204 \/ inv.response.contentLength = JStr("0"))

NoContentValue ==
    JObj(<<Member("status", JNum(inv.response.status)),
           Member("message", JStr("Operation successful (No Content)"))>>)

UpstreamErrorPrefix ==
    ToolPrefix \o "ClickHouse API Error (" \o inv.method \o " " \o inv.path \o "): "

\* C6 (as claimed): a response that is not text/plain, with status 204 or
\* content-length "0", is returned as the synthesized success value, whatever
\* else it holds, and is never an error.
C6_NoContentAlwaysSuccess ==
    (Settled /\ NoContentResponse) =>
        inv.pc = "completed" /\ inv.content = Content(NoContentValue)

\* C6 (amended): such a response is never read nor reported as a parse failure;
\* with a 2xx status (204, or 2xx with content-length "0") the synthesized value
\* {status, message: "Operation successful (No Content)"} is the result; with a
\* non-2xx status and content-length "0" the call raises the upstream error of
\* that status instead.
C6_NoContentSuccessWhenOk ==
    (Settled /\ NoContentResponse) =>
        /\ ~Contains(inv.error, "Failed to parse JSON response")
        /\ IF inv.response.status \in 200..299
           THEN inv.pc = "completed" /\ inv.content = Content(NoContentValue)
           ELSE /\ inv.pc = "failed"
                /\ StartsWith(inv.error,
                              UpstreamErrorPrefix \o ToString(inv.response.status) \o " ")

\* deleteService was answered 204 with no body, and completed with the
\* synthesized value; so did a 200 whose content-length is "0"
C6_Witness ==
    /\ inv.pc = "completed"
    /\ inv.name = "clickhouse_deleteService"
    /\ inv.response.status \in {200, 204}
    /\ inv.response.contentLength = JStr("0")
    /\ Get(inv.content.items[1], "text") =
          JStr("{\n  \"status\": " \o ToString(inv.response.status)
               \o ",\n  \"message\": \"Operation successful (No Content)\"\n}")

\* the message the claim expects of a non-2xx response: the body's error field,
\* else its message field, else the raw body, else the status line
ClaimedDetail ==
    LET parsed == JsonParse(inv.response.body)
    IN  IF ~parsed.threw /\ Has(parsed.value, "error")
        THEN ToStr(Get(parsed.value, "error"))
        ELSE IF ~parsed.threw /\ Has(parsed.value, "message")
        THEN ToStr(Get(parsed.value, "message"))
        ELSE IF inv.response.body # ""
        THEN inv.response.body
        ELSE inv.response.statusText

\* C7 (as claimed): a non-2xx response ends the invocation Failed, with a message
\* that holds the status code, the tool name and the detail chosen in the
\* claimed priority order.
C7_NonOkFailsWithDetail ==
    (Settled /\ inv.response.status \notin 200..299) =>
        /\ inv.pc = "failed"
        /\ Contains(inv.error, ToString(inv.response.status))
        /\ Contains(inv.error, inv.name)
        /\ Contains(inv.error, ClaimedDetail)

\* C8 (as claimed): a text/plain response is handled first: 2xx gives
\* {plainTextResponse: body} in one text block; non-2xx raises an error whose
\* message is the body, or the status line when the body is empty or unreadable.
C8_PlainTextAsClaimed ==
    (Settled /\ PlainTextResponse) =>
        IF inv.response.status \in 200..299
        THEN inv.response.readable =>
                /\ inv.pc = "completed"
                /\ inv.content =
                      Content(JObj(<<Member("plainTextResponse",
                                            JStr(inv.response.body))>>))
        ELSE /\ inv.pc = "failed"
             /\ EndsWith(inv.error,
                         IF inv.response.body = "" \/ ~inv.response.readable
                         THEN inv.response.statusText
                         ELSE inv.response.body)

\* C8 (amended): a text/plain response is handled first: 2xx (204 and
\* content-length 0 included) whose body can be read gives
\* {plainTextResponse: body}, wrapped as exactly one text block holding its
\* pretty-printed JSON; 2xx whose body cannot be read fails with the read error;
\* non-2xx raises "ClickHouse API Error (<method> <path>): <status> <text>" where
\* <text> is the body, empty when the body is empty, and the status line only
\* when the body cannot be read.
C8_PlainTextFirst ==
    (Settled /\ PlainTextResponse) =>
        IF inv.response.status \in 200..299
        THEN IF inv.response.readable
             THEN /\ inv.pc = "completed"
                  /\ Len(inv.content.items) = 1
                  /\ inv.content =
                        Content(JObj(<<Member("plainTextResponse",
                                              JStr(inv.response.body))>>))
             ELSE inv.pc = "failed" /\ StartsWith(inv.error, ToolPrefix)
        ELSE /\ inv.pc = "failed"
             /\ inv.error =
                   UpstreamErrorPrefix \o ToString(inv.response.status) \o " "
                   \o (IF inv.response.readable
                       THEN inv.response.body
                       ELSE inv.response.statusText)

\* a text/plain 200 was wrapped in one text block; its text is the JSON of the
\* wrapper object
C8_Witness ==
    /\ inv.pc = "completed"
    /\ PlainTextResponse
    /\ inv.response.status = 200
    /\ inv.response.body = "<html>Bad Gateway</html>"
    /\ inv.content =
          JArr(<<JObj(<<Member("type", JStr("text")),
                        Member("text",
                               JStr("{\n  \"plainTextResponse\": "
                                    \o "\"<html>Bad Gateway</html>\"\n}"))>>)>>)

\* C10 (as claimed): an invocation issues at most one HTTP request, exactly one
\* when the credentials are present, the tool is registered and the arguments
\* validate, none after a failure, and ends Completed or Failed; updateServiceState
\* with command "start" issues one PATCH to .../state with body {"command":"start"}.
C10_SingleAttempt ==
    inv.pc # "idle" =>
        /\ inv.fetches <= 1
        /\ inv.pc \in {"calling", "completed", "failed"}
        /\ (~CredentialsMissingAtCall /\ ValidInvocation) =>
              /\ inv.fetches = 1
              /\ inv.name = "clickhouse_updateServiceState" =>
                    /\ inv.request.method = "PATCH"
                    /\ EndsWith(inv.request.url, "/state")
                    /\ inv.request.body = JStr("{\"command\":\"start\"}")
        /\ inv.pc = "completed" => inv.error = "" /\ inv.content # Undefined
        /\ inv.pc = "failed" => inv.error # "" /\ inv.content = Undefined

\* the response took the JSON path, its body could be read and is not JSON
UnparsableJsonResponse ==
    /\ ~PlainTextResponse
    /\ ~NoContentResponse
    /\ inv.response.readable
    /\ JsonParse(inv.response.body).threw

\* C11: when the body of a response on the JSON path does not parse as JSON, the
\* invocation fails with an error that holds the HTTP status and the raw text of
\* the body (the failed JSON read has left the body readable), not the status
\* line in its place.
C11_ParseFailureShowsBody ==
    (Settled /\ UnparsableJsonResponse) =>
        /\ inv.pc = "failed"
        /\ inv.error = UpstreamErrorPrefix \o "Failed to parse JSON response. Status: "
                       \o ToString(inv.response.status) \o ". Response text: "
                       \o inv.response.body

(***************************************************************************)
(* Properties of the SSE slot                                              *)
(***************************************************************************)
\* the GET /sse requests that were accepted and whose handlers have neither
\* released the slot nor failed
Holding == { id \in DOMAIN sess : sess[id].st \in {"connecting", "connected", "cleanup", "closing"} }

\* C9: at most one SSE client is held at a time. In every state at most one
\* accepted GET /sse is being established or active, it is the one in the
\* transport slot, and a client still connected to the server is that one; and
\* every GET /sse arriving while the slot is taken is answered 409, leaves the
\* slot, the server's connection and every earlier request as they were.
C9_SingleSlot ==
    /\ [](/\ Cardinality(Holding) <= 1
          /\ \A id \in Holding : transport = id
          /\ (server # 0 /\ ~sess[server].gone) => server = transport)
    /\ [][(Len(sess') = Len(sess) + 1 /\ transport # 0) =>
              /\ lastReply' = [code |-> 409, to |-> Len(sess')]
              /\ sess'[Len(sess')].st = "rejected"
              /\ transport' = transport
              /\ server' = server
              /\ SubSeq(sess', 1, Len(sess)) = sess]_vars

\* a second GET /sse was answered 409 while the first was still being
\* established, and the slot is still the first's
C9_Witness ==
    /\ Len(sess) = 2
    /\ sess[1].st = "connecting"
    /\ sess[2].st = "rejected"
    /\ transport = 1
    /\ lastReply = [code |-> 409, to |-> 2]

\* C12: the slot is always released. Once the client whose transport is in the
\* slot has gone away, whether before or after server.connect completed and
\* however cleanup() and server.close() end, the slot becomes empty again; after
\* a failed connect it is empty; and POST /message is answered 404 exactly when
\* the slot is empty.
C12_SlotAlwaysReleased ==
    /\ \A id \in 1..MaxSessions :
          (id \in DOMAIN sess /\ transport = id /\ sess[id].gone) ~> (transport = 0)
    /\ [][/\ \A id \in DOMAIN sess :
                (sess[id].st = "connecting" /\ sess'[id].st = "failed") => transport' = 0
          /\ (sess' = sess /\ lastReply' # lastReply) =>
                (lastReply'.code = 404 <=> transport = 0)]_vars

====
